---- MODULE Spec2Model ----
(***************************************************************************)
(* Model of the CIPC wire-format codec (src/cipc/serialize.h,              *)
(* src/cipc/serialize.cc).                                                 *)
(*                                                                         *)
(* Integers are kept as their two's-complement pattern, a sequence of      *)
(* base-256 digits with the least significant digit first, because the     *)
(* 32- and 64-bit values of the program do not fit a TLC integer.  The     *)
(* object representation of such a value in host memory is a separate      *)
(* notion (ToMem / FromMem) that depends on the host's byte order.         *)
(***************************************************************************)
EXTENDS Integers, Sequences, FiniteSets, TLC

\* ------------------------------------------------------------------------
\* Bounds of the model.

\* Size of the byte buffer handed to the codec (128 in the unit tests).
BufLen == 16

\* A 32-bit count with a non-zero upper half exceeds every buffer of the
\* model; it is carried as this value ("at least 2^16").
CountSat == 65536

\* ------------------------------------------------------------------------
\* Types.  A type is a tuple: <<name>> for scalars and strings,
\* <<container, item>> for sequences, <<container, key, value>> for maps.

IntNames == {"u8", "u16", "u32", "u64", "i8", "i16", "i32", "i64"}
FloatNames == {"f32", "f64"}
ListNames == {"vector", "list", "deque"}
MapNames == {"map", "multimap", "unordered_map", "unordered_multimap"}

TU8 == <<"u8">>
TU16 == <<"u16">>
TU32 == <<"u32">>
TU64 == <<"u64">>
TI8 == <<"i8">>
TI16 == <<"i16">>
TI32 == <<"i32">>
TI64 == <<"i64">>
TBool == <<"bool">>
TF32 == <<"f32">>
TF64 == <<"f64">>
TStr == <<"str">>

IsInt(t) == t[1] \in IntNames
IsBool(t) == t[1] = "bool"
IsFloat(t) == t[1] \in FloatNames
IsStr(t) == t[1] = "str"
IsList(t) == t[1] \in ListNames
IsMap(t) == t[1] \in MapNames
IsPrimitive(t) == IsInt(t) \/ IsBool(t) \/ IsFloat(t)

\* sizeof(T) of a primitive type.
SizeOf(t) ==
  CASE t[1] \in {"u8", "i8", "bool"} -> 1
    [] t[1] \in {"u16", "i16"} -> 2
    [] t[1] \in {"u32", "i32", "f32"} -> 4
    [] t[1] \in {"u64", "i64", "f64"} -> 8

\* std::is_signed<T>.
IsSigned(t) == t[1] \in {"i8", "i16", "i32", "i64"}

\* sizeof(CollectionSize), sizeof(StringSize).
CollectionSizeBytes == SizeOf(TU32)
StringSizeBytes == SizeOf(TU32)

\* A value is [t |-> type, d |-> data]: the digits of a primitive, the
\* bytes of a string, the items of a sequence, the <<key, value>> pairs of
\* a map in the container's iteration order.
Val(t, d) == [t |-> t, d |-> d]

NoVal == Val(<<"none">>, <<>>)

\* ------------------------------------------------------------------------
\* Digit arithmetic.

Pow256(i) == CASE i = 0 -> 1 [] i = 1 -> 256 [] i = 2 -> 65536 [] i = 3 -> 16777216

\* Two's-complement pattern of the (small) integer n in w bytes.
DigitsOf(n, w) == [i \in 1..w |-> IF i <= 4 THEN (n \div Pow256(i - 1)) % 256
                                            ELSE IF n < 0 THEN 255 ELSE 0]

Reverse(s) == [i \in 1..Len(s) |-> s[Len(s) + 1 - i]]

\* x & 0xFF
LowByte(x) == x[1]

\* x >>= 8 in type T (arithmetic for signed T, logical for unsigned T).
Shr8(x, signed) ==
  Tail(x) \o << IF signed /\ x[Len(x)] >= 128 THEN 255 ELSE 0 >>

\* result <<= 8; result |= b
Shl8Or(x, b) == << b >> \o SubSeq(x, 1, Len(x) - 1)

\* A std::uint32_t count as a number (saturated, see CountSat).
U32ToNat(d) == IF d[3] = 0 /\ d[4] = 0 THEN d[1] + 256 * d[2] ELSE CountSat

\* std::size_t arithmetic: a negative number stands for the wrapped value
\* 2^64 + n, which is larger than every size of the model.
SizeLt(a, b) == a >= 0 /\ a < b

\* ------------------------------------------------------------------------
\* Host memory.

\* Object representation of an unsigned integer (or IEEE 754 pattern).
ToMem(d, host) == IF host = "LE" THEN d ELSE Reverse(d)

\* Value of the unsigned integer whose object representation is b.
FromMem(b, host) == IF host = "LE" THEN b ELSE Reverse(b)

\* memcpy(buf + off, bytes, Len(bytes))
Memcpy(buf, off, bytes) ==
  [i \in 1..Len(buf) |->
     IF off < i /\ i <= off + Len(bytes) THEN bytes[i - off] ELSE buf[i]]

\* ------------------------------------------------------------------------
\* Endianness core.

\* The builds of the library: the host's byte order and the branch of
\* host_to_le / le_to_host that the preprocessor selects.
Builds ==
  { [host |-> "LE", impl |-> "le_cast"],
    [host |-> "BE", impl |-> "be_swap"],
    [host |-> "LE", impl |-> "portable"],
    [host |-> "BE", impl |-> "portable"] }

byte_swap(x) == Reverse(x)

RECURSIVE HostToLeLoop(_, _, _, _)
HostToLeLoop(x, bytes, i, signed) ==
  IF i = Len(x) THEN bytes
  ELSE HostToLeLoop(Shr8(x, signed), Append(bytes, LowByte(x)), i + 1, signed)

\* host_to_le that does not swap on a big-endian host.
host_to_le_noswap(x, t, e) ==
  CASE e.impl = "le_cast" -> x
    [] e.impl = "be_swap" -> x
    [] OTHER -> FromMem(HostToLeLoop(x, <<>>, 0, IsSigned(t)), e.host)

host_to_le(x, t, e) ==
  CASE e.impl = "le_cast" -> x
    [] e.impl = "be_swap" -> byte_swap(x)
    [] OTHER -> FromMem(HostToLeLoop(x, <<>>, 0, IsSigned(t)), e.host)

\* The loop of le_to_host reading bytes[i] instead of
\* bytes[sizeof(T) - 1 - i].
RECURSIVE LeToHostLoop_lowfirst(_, _, _)
LeToHostLoop_lowfirst(bytes, result, i) ==
  IF i = Len(bytes) THEN result
  ELSE LeToHostLoop_lowfirst(bytes, Shl8Or(result, bytes[i + 1]), i + 1)

RECURSIVE LeToHostLoop(_, _, _)
LeToHostLoop(bytes, result, i) ==
  IF i = Len(bytes) THEN result
  ELSE LeToHostLoop(bytes, Shl8Or(result, bytes[Len(bytes) - i]), i + 1)

\* le_to_host that does not swap on a big-endian host.
le_to_host_noswap(x, t, e) ==
  CASE e.impl = "le_cast" -> x
    [] e.impl = "be_swap" -> x
    [] OTHER -> LeToHostLoop(ToMem(x, e.host), DigitsOf(0, Len(x)), 0)

le_to_host(x, t, e) ==
  CASE e.impl = "le_cast" -> x
    [] e.impl = "be_swap" -> byte_swap(x)
    [] OTHER -> LeToHostLoop(ToMem(x, e.host), DigitsOf(0, Len(x)), 0)

\* ------------------------------------------------------------------------
\* The environment of a call: the build, the definition of
\* deserialize<bool> the call binds to (the template of serialize.h or the
\* explicit specialization of serialize.cc, which is not declared in the
\* header), and the outcomes of reading indeterminate or unowned memory.
\*   ulen   value of an uninitialized StringSize / CollectionSize
\*   ubyte  value of an uninitialized std::uint8_t
\*   uret   value returned by a call that read outside the allocation
Env(b, boolHdr, ulen, ubyte, uret) ==
  [host |-> b.host, impl |-> b.impl, boolHdr |-> boolHdr,
   ulen |-> ulen, ubyte |-> ubyte, uret |-> uret]

\* ------------------------------------------------------------------------
\* Size oracle.

RECURSIVE serialized_size(_)

RECURSIVE SizeOfItems(_, _)
SizeOfItems(items, size) ==
  IF items = <<>> THEN size
  ELSE SizeOfItems(Tail(items), size + serialized_size(Head(items)))

RECURSIVE SizeOfPairs(_, _)
SizeOfPairs(pairs, size) ==
  IF pairs = <<>> THEN size
  ELSE SizeOfPairs(Tail(pairs),
         size + serialized_size(Head(pairs)[1]) + serialized_size(Head(pairs)[2]))

serialized_size_string(x) == StringSizeBytes + Len(x)

serialized_size(v) ==
  CASE IsPrimitive(v.t) -> SizeOf(v.t)
    [] IsStr(v.t) -> serialized_size_string(v.d)
    [] IsList(v.t) -> SizeOfItems(v.d, CollectionSizeBytes)
    [] IsMap(v.t) -> SizeOfPairs(v.d, CollectionSizeBytes)

\* ------------------------------------------------------------------------
\* Encoders.  A call serialize(x, buf + off, buf_size) yields the count it
\* returns and the buffer as the call leaves it.

SerRes(n, buf) == [n |-> n, buf |-> buf]

serialize_integral(x, t, buf, off, buf_size, e) ==
  IF buf_size < SizeOf(t) THEN SerRes(0, buf)
  ELSE SerRes(SizeOf(t), Memcpy(buf, off, ToMem(host_to_le(x, t, e), e.host)))

\* static_cast<std::uint8_t>(bool)
BoolToU8(x) == << IF x[1] = 0 THEN 0 ELSE 1 >>

serialize_bool(x, buf, off, buf_size, e) ==
  serialize_integral(BoolToU8(x), TU8, buf, off, buf_size, e)

serialize_float(x, t, buf, off, buf_size, e) ==
  IF buf_size < SizeOf(t) THEN SerRes(0, buf)
  ELSE SerRes(SizeOf(t), Memcpy(buf, off, ToMem(x, e.host)))

\* serialize of a string that also copies a terminating zero.
serialize_string_terminated(x, buf, off, buf_size, e) ==
  LET size == serialized_size_string(x) IN
  IF size > buf_size THEN SerRes(0, buf)
  ELSE LET r == serialize_integral(DigitsOf(Len(x), 4), TU32, buf, off, buf_size, e)
       IN SerRes(size, Memcpy(r.buf, off + r.n, x \o << 0 >>))

serialize_string(x, buf, off, buf_size, e) ==
  LET size == serialized_size_string(x) IN
  IF size > buf_size THEN SerRes(0, buf)
  ELSE LET r == serialize_integral(DigitsOf(Len(x), 4), TU32, buf, off, buf_size, e)
       IN SerRes(size, Memcpy(r.buf, off + r.n, x))

RECURSIVE serialize(_, _, _, _, _)

\* The item loop without `cursor += written_bytes`.
RECURSIVE SerializeItems_nocursor(_, _, _, _, _, _)
SerializeItems_nocursor(items, buf, cursor, buf_size, start, e) ==
  IF items = <<>> THEN SerRes(cursor - start, buf)
  ELSE LET w == serialize(Head(items), buf, cursor, buf_size, e) IN
       IF w.n = 0 THEN SerRes(0, w.buf)
       ELSE SerializeItems_nocursor(Tail(items), w.buf, cursor, buf_size - w.n,
                                    start, e)

RECURSIVE SerializeItems(_, _, _, _, _, _)
SerializeItems(items, buf, cursor, buf_size, start, e) ==
  IF items = <<>> THEN SerRes(cursor - start, buf)
  ELSE LET w == serialize(Head(items), buf, cursor, buf_size, e) IN
       IF w.n = 0 THEN SerRes(0, w.buf)
       ELSE SerializeItems(Tail(items), w.buf, cursor + w.n, buf_size - w.n,
                           start, e)

\* serialize of a sequence without the check of the total size.
serialize_list_nocheck(v, buf, off, buf_size, e) ==
  LET r == serialize_integral(DigitsOf(Len(v.d), 4), TU32, buf, off,
                              buf_size, e)
  IN IF r.n = 0 THEN SerRes(0, r.buf)
     ELSE SerializeItems(v.d, r.buf, off + r.n, buf_size - r.n, off, e)

serialize_list(v, buf, off, buf_size, e) ==
  LET size == serialized_size(v) IN
  IF size > buf_size THEN SerRes(0, buf)
  ELSE LET r == serialize_integral(DigitsOf(Len(v.d), 4), TU32, buf, off,
                                   buf_size, e)
       IN IF r.n = 0 THEN SerRes(0, r.buf)
          ELSE SerializeItems(v.d, r.buf, off + r.n, buf_size - r.n, off, e)

RECURSIVE SerializePairs(_, _, _, _, _, _)
SerializePairs(pairs, buf, cursor, buf_size, start, e) ==
  IF pairs = <<>> THEN SerRes(cursor - start, buf)
  ELSE LET k == serialize(Head(pairs)[1], buf, cursor, buf_size, e) IN
       IF k.n = 0 THEN SerRes(0, k.buf)
       ELSE LET w == serialize(Head(pairs)[2], k.buf, cursor + k.n,
                               buf_size - k.n, e) IN
            IF w.n = 0 THEN SerRes(0, w.buf)
            ELSE SerializePairs(Tail(pairs), w.buf, cursor + k.n + w.n,
                                buf_size - k.n - w.n, start, e)

serialize_map(v, buf, off, buf_size, e) ==
  LET size == serialized_size(v) IN
  IF size > buf_size THEN SerRes(0, buf)
  ELSE LET r == serialize_integral(DigitsOf(Len(v.d), 4), TU32, buf, off,
                                   buf_size, e)
       IN IF r.n = 0 THEN SerRes(0, r.buf)
          ELSE SerializePairs(v.d, r.buf, off + r.n, buf_size - r.n, off, e)

serialize(v, buf, off, buf_size, e) ==
  CASE IsInt(v.t) -> serialize_integral(v.d, v.t, buf, off, buf_size, e)
    [] IsBool(v.t) -> serialize_bool(v.d, buf, off, buf_size, e)
    [] IsFloat(v.t) -> serialize_float(v.d, v.t, buf, off, buf_size, e)
    [] IsStr(v.t) -> serialize_string(v.d, buf, off, buf_size, e)
    [] IsList(v.t) -> serialize_list(v, buf, off, buf_size, e)
    [] IsMap(v.t) -> serialize_map(v, buf, off, buf_size, e)

\* ------------------------------------------------------------------------
\* Decoders.  A call deserialize(&x, buf + off, buf_size) yields the count
\* it returns, the destination as the call leaves it, and what the call did
\* on the way:
\*   over    it read a byte at or beyond the capacity the caller passed
\*           (index > lim)
\*   ub      it read outside the allocation of the buffer.  The bytes there
\*           are indeterminate: a string keeps only the bytes it read inside
\*           the allocation, and a call that goes on after such a read is
\*           not followed further, its count is the indeterminate e.uret
\*   uninit  it used an uninitialized local
\*   wrap    its remaining-capacity counter wrapped below zero

Flags(over, ub, uninit, wrap) ==
  [over |-> over, ub |-> ub, uninit |-> uninit, wrap |-> wrap]

NoFlags == Flags(FALSE, FALSE, FALSE, FALSE)

FlagsOf(r) == Flags(r.over, r.ub, r.uninit, r.wrap)

Join(f, g) == Flags(f.over \/ g.over, f.ub \/ g.ub, f.uninit \/ g.uninit,
                    f.wrap \/ g.wrap)

DesRes(n, out, f) ==
  [n |-> n, out |-> out, over |-> f.over, ub |-> f.ub, uninit |-> f.uninit,
   wrap |-> f.wrap]

\* The call read outside the allocation.
Fault(out, f, e) == DesRes(e.uret, out, Join(f, Flags(TRUE, TRUE, FALSE, FALSE)))

\* buf_size -= n
SizeSub(buf_size, n) == buf_size - n

Wraps(buf_size, n) == buf_size >= 0 /\ n > buf_size

deserialize_integral(x, t, buf, off, buf_size, lim, e) ==
  IF SizeLt(buf_size, SizeOf(t)) THEN DesRes(0, x, NoFlags)
  ELSE IF off + SizeOf(t) > Len(buf) THEN Fault(x, NoFlags, e)
  ELSE DesRes(SizeOf(t),
              Val(t, le_to_host(
                       FromMem(SubSeq(buf, off + 1, off + SizeOf(t)), e.host),
                       t, e)),
              Flags(off + SizeOf(t) > lim, FALSE, FALSE, FALSE))

\* The template of serialize.h: decodes into a local byte and converts it.
deserialize_bool_header(x, buf, off, buf_size, lim, e) ==
  LET r == deserialize_integral(Val(TU8, << e.ubyte >>), TU8, buf, off,
                                buf_size, lim, e)
  IN DesRes(r.n, Val(TBool, << IF r.out.d[1] = 0 THEN 0 ELSE 1 >>),
            Join(FlagsOf(r), Flags(FALSE, FALSE, r.n = 0, FALSE)))

\* The specialization of serialize.cc: decodes into the bool's storage.
deserialize_bool_source(x, buf, off, buf_size, lim, e) ==
  LET r == deserialize_integral(Val(TU8, x.d), TU8, buf, off, buf_size, lim, e)
  IN DesRes(r.n, Val(TBool, r.out.d), FlagsOf(r))

deserialize_bool(x, buf, off, buf_size, lim, e) ==
  IF e.boolHdr THEN deserialize_bool_header(x, buf, off, buf_size, lim, e)
  ELSE deserialize_bool_source(x, buf, off, buf_size, lim, e)

deserialize_float(x, t, buf, off, buf_size, lim, e) ==
  IF SizeLt(buf_size, SizeOf(t)) THEN DesRes(0, x, NoFlags)
  ELSE IF off + SizeOf(t) > Len(buf) THEN Fault(x, NoFlags, e)
  ELSE DesRes(SizeOf(t),
              Val(t, FromMem(SubSeq(buf, off + 1, off + SizeOf(t)), e.host)),
              Flags(off + SizeOf(t) > lim, FALSE, FALSE, FALSE))

deserialize_string(x, buf, off, buf_size, lim, e) ==
  LET r == deserialize_integral(Val(TU32, DigitsOf(e.ulen, 4)), TU32, buf, off,
                                buf_size, lim, e)
      len == U32ToNat(r.out.d)
      len_size == r.n
      start == off + len_size
      f == Join(FlagsOf(r), Flags(len > 0 /\ start + len > lim, FALSE,
                                  len_size = 0, FALSE))
  IN IF r.ub THEN Fault(x, FlagsOf(r), e)
     ELSE IF start + len > Len(buf)
          THEN DesRes(len_size + len, Val(TStr, SubSeq(buf, start + 1, Len(buf))),
                      Join(f, Flags(TRUE, TRUE, FALSE, FALSE)))
     ELSE DesRes(len_size + len, Val(TStr, SubSeq(buf, start + 1, start + len)), f)

\* A default-constructed object (`Item item;`).  The value of a primitive
\* is indeterminate; it is overwritten before it is stored anywhere.
DefaultOf(t) == IF IsPrimitive(t) THEN Val(t, DigitsOf(0, SizeOf(t)))
                ELSE Val(t, <<>>)

RECURSIVE deserialize(_, _, _, _, _, _)

RECURSIVE DeserializeItems(_, _, _, _, _, _, _, _, _)
DeserializeItems(x, n_items, buf, cursor, buf_size, start, lim, f, e) ==
  IF n_items = 0 THEN DesRes(cursor - start, x, f)
  ELSE LET r == deserialize(DefaultOf(x.t[2]), buf, cursor, buf_size, lim, e)
           g == Join(f, FlagsOf(r))
       IN IF r.ub THEN Fault(x, g, e)
          ELSE IF r.n = 0 THEN DesRes(0, x, g)
          ELSE DeserializeItems(
                 Val(x.t, Append(x.d, r.out)), n_items - 1, buf, cursor + r.n,
                 SizeSub(buf_size, r.n), start, lim,
                 Join(g, Flags(FALSE, FALSE, FALSE, Wraps(buf_size, r.n))), e)

\* deserialize of a sequence that reads the items from the start of the
\* buffer, not from behind the count.
deserialize_list_nocount(x, buf, off, buf_size, lim, e) ==
  LET cleared == Val(x.t, <<>>)
      r == deserialize_integral(Val(TU32, DigitsOf(e.ulen, 4)), TU32, buf, off,
                                buf_size, lim, e)
  IN IF r.ub THEN Fault(cleared, FlagsOf(r), e)
     ELSE IF r.n = 0 THEN DesRes(0, cleared, FlagsOf(r))
     ELSE DeserializeItems(cleared, U32ToNat(r.out.d), buf, off,
                           SizeSub(buf_size, r.n), off, lim, FlagsOf(r), e)

deserialize_list(x, buf, off, buf_size, lim, e) ==
  LET cleared == Val(x.t, <<>>)
      r == deserialize_integral(Val(TU32, DigitsOf(e.ulen, 4)), TU32, buf, off,
                                buf_size, lim, e)
  IN IF r.ub THEN Fault(cleared, FlagsOf(r), e)
     ELSE IF r.n = 0 THEN DesRes(0, cleared, FlagsOf(r))
     ELSE DeserializeItems(cleared, U32ToNat(r.out.d), buf, off + r.n,
                           SizeSub(buf_size, r.n), off, lim, FlagsOf(r), e)

\* ------------------------------------------------------------------------
\* Associative containers: key order, insertion and comparison.

RECURSIVE LexLess(_, _)
LexLess(a, b) ==
  IF Len(b) = 0 THEN FALSE
  ELSE IF Len(a) = 0 THEN TRUE
  ELSE IF a[1] # b[1] THEN a[1] < b[1]
  ELSE LexLess(Tail(a), Tail(b))

\* Digits of an integer, most significant first, biased so that the order
\* of the sequences is the order of the numbers.
OrderKey(d, signed) ==
  LET r == Reverse(d) IN
  IF signed THEN [r EXCEPT ![1] = (@ + 128) % 256] ELSE r

\* std::less<Key>
KeyLess(a, b) ==
  IF IsStr(a.t) THEN LexLess(a.d, b.d)
  ELSE LexLess(OrderKey(a.d, IsSigned(a.t)), OrderKey(b.d, IsSigned(b.t)))

HasKey(pairs, k) == \E i \in 1..Len(pairs) : pairs[i][1] = k

\* The pairs with p inserted after the first i of them.
InsertAfter(pairs, i, p) ==
  SubSeq(pairs, 1, i) \o << p >> \o SubSeq(pairs, i + 1, Len(pairs))

\* Number of pairs of a sorted container whose key is not greater than k.
UpperBound(pairs, k) ==
  Cardinality({i \in 1..Len(pairs) : ~KeyLess(k, pairs[i][1])})

\* Position of the last pair with key k.
LastWithKey(pairs, k) ==
  CHOOSE i \in 1..Len(pairs) :
    /\ pairs[i][1] = k
    /\ \A j \in (i + 1)..Len(pairs) : pairs[j][1] # k

\* An insert that keeps one pair per key in every container.
\* insert that replaces the value of a key a unique-key map already holds.
MapInsert_overwrite(x, p) ==
  CASE x.t[1] = "map" ->
         IF HasKey(x.d, p[1])
         THEN Val(x.t, [i \in 1..Len(x.d) |->
                          IF x.d[i][1] = p[1] THEN p ELSE x.d[i]])
         ELSE Val(x.t, InsertAfter(x.d, UpperBound(x.d, p[1]), p))
    [] x.t[1] = "multimap" ->
         Val(x.t, InsertAfter(x.d, UpperBound(x.d, p[1]), p))
    [] x.t[1] = "unordered_map" ->
         IF HasKey(x.d, p[1])
         THEN Val(x.t, [i \in 1..Len(x.d) |->
                          IF x.d[i][1] = p[1] THEN p ELSE x.d[i]])
         ELSE Val(x.t, << p >> \o x.d)
    [] x.t[1] = "unordered_multimap" ->
         IF HasKey(x.d, p[1])
         THEN Val(x.t, InsertAfter(x.d, LastWithKey(x.d, p[1]), p))
         ELSE Val(x.t, << p >> \o x.d)

MapInsert_unique(x, p) ==
  IF HasKey(x.d, p[1]) THEN x
  ELSE IF x.t[1] \in {"map", "multimap"}
       THEN Val(x.t, InsertAfter(x.d, UpperBound(x.d, p[1]), p))
       ELSE Val(x.t, << p >> \o x.d)

\* x->insert(std::make_pair(key, value)).  The iteration order of an
\* unordered container is unspecified; the model puts a new key first and
\* keeps equal keys adjacent.
MapInsert(x, p) ==
  CASE x.t[1] = "map" ->
         IF HasKey(x.d, p[1]) THEN x
         ELSE Val(x.t, InsertAfter(x.d, UpperBound(x.d, p[1]), p))
    [] x.t[1] = "multimap" ->
         Val(x.t, InsertAfter(x.d, UpperBound(x.d, p[1]), p))
    [] x.t[1] = "unordered_map" ->
         IF HasKey(x.d, p[1]) THEN x ELSE Val(x.t, << p >> \o x.d)
    [] x.t[1] = "unordered_multimap" ->
         IF HasKey(x.d, p[1])
         THEN Val(x.t, InsertAfter(x.d, LastWithKey(x.d, p[1]), p))
         ELSE Val(x.t, << p >> \o x.d)

Count(s, p) == Cardinality({i \in 1..Len(s) : s[i] = p})

\* operator== of two containers of the same type: element-wise for the
\* sequences and the ordered maps, as a permutation for the unordered maps.
ValEq(a, b) ==
  IF a.t[1] \in {"unordered_map", "unordered_multimap"}
  THEN /\ a.t = b.t
       /\ Len(a.d) = Len(b.d)
       /\ \A i \in 1..Len(a.d) : Count(a.d, a.d[i]) = Count(b.d, a.d[i])
  ELSE a = b

RECURSIVE DeserializePairs(_, _, _, _, _, _, _, _, _)
DeserializePairs(x, n_items, buf, cursor, buf_size, start, lim, f, e) ==
  IF n_items = 0 THEN DesRes(cursor - start, x, f)
  ELSE
    LET k == deserialize(DefaultOf(x.t[2]), buf, cursor, buf_size, lim, e)
        fk == Join(f, FlagsOf(k))
    IN IF k.ub THEN Fault(x, fk, e)
       ELSE IF k.n = 0 THEN DesRes(0, x, fk)
       ELSE
         LET c2 == cursor + k.n
             b2 == SizeSub(buf_size, k.n)
             v == deserialize(DefaultOf(x.t[3]), buf, c2, b2, lim, e)
             fv == Join(Join(fk, FlagsOf(v)),
                        Flags(FALSE, FALSE, FALSE, Wraps(buf_size, k.n)))
         IN IF v.ub THEN Fault(x, fv, e)
            ELSE IF v.n = 0 THEN DesRes(0, x, fv)
            ELSE DeserializePairs(
                   MapInsert(x, << k.out, v.out >>), n_items - 1, buf,
                   c2 + v.n, SizeSub(b2, v.n), start, lim,
                   Join(fv, Flags(FALSE, FALSE, FALSE, Wraps(b2, v.n))), e)

deserialize_map(x, buf, off, buf_size, lim, e) ==
  LET cleared == Val(x.t, <<>>)
      r == deserialize_integral(Val(TU32, DigitsOf(e.ulen, 4)), TU32, buf, off,
                                buf_size, lim, e)
  IN IF r.ub THEN Fault(cleared, FlagsOf(r), e)
     ELSE IF r.n = 0 THEN DesRes(0, cleared, FlagsOf(r))
     ELSE DeserializePairs(cleared, U32ToNat(r.out.d), buf, off + r.n,
                           SizeSub(buf_size, r.n), off, lim, FlagsOf(r), e)

deserialize(x, buf, off, buf_size, lim, e) ==
  CASE IsInt(x.t) -> deserialize_integral(x, x.t, buf, off, buf_size, lim, e)
    [] IsBool(x.t) -> deserialize_bool(x, buf, off, buf_size, lim, e)
    [] IsFloat(x.t) -> deserialize_float(x, x.t, buf, off, buf_size, lim, e)
    [] IsStr(x.t) -> deserialize_string(x, buf, off, buf_size, lim, e)
    [] IsList(x.t) -> deserialize_list(x, buf, off, buf_size, lim, e)
    [] IsMap(x.t) -> deserialize_map(x, buf, off, buf_size, lim, e)

\* ------------------------------------------------------------------------
\* Sample values (the unit tests' values, cut to the buffer of the model).

Ones(w) == [i \in 1..w |-> 255]

IntSamples ==
  { Val(TU8, DigitsOf(0, 1)), Val(TU8, DigitsOf(1, 1)), Val(TU8, Ones(1)),
    Val(TU8, << 171 >>),
    Val(TU16, DigitsOf(0, 2)), Val(TU16, DigitsOf(1, 2)), Val(TU16, Ones(2)),
    Val(TU16, << 239, 190 >>),
    Val(TU32, DigitsOf(0, 4)), Val(TU32, DigitsOf(1, 4)), Val(TU32, Ones(4)),
    Val(TU32, << 239, 190, 173, 222 >>),
    Val(TU64, DigitsOf(0, 8)), Val(TU64, DigitsOf(1, 8)), Val(TU64, Ones(8)),
    Val(TU64, << 210, 194, 178, 162, 209, 193, 177, 161 >>),
    Val(TI8, DigitsOf(0, 1)), Val(TI8, DigitsOf(1, 1)),
    Val(TI8, DigitsOf(-128, 1)), Val(TI8, DigitsOf(127, 1)),
    Val(TI8, DigitsOf(-2, 1)),
    Val(TI16, DigitsOf(0, 2)), Val(TI16, DigitsOf(1, 2)),
    Val(TI16, DigitsOf(-32768, 2)), Val(TI16, DigitsOf(32767, 2)),
    Val(TI16, DigitsOf(-2, 2)), Val(TI16, DigitsOf(4660, 2)),
    Val(TI32, DigitsOf(0, 4)), Val(TI32, DigitsOf(1, 4)),
    Val(TI32, << 0, 0, 0, 128 >>), Val(TI32, DigitsOf(2147483647, 4)),
    Val(TI32, DigitsOf(-2, 4)), Val(TI32, DigitsOf(305419896, 4)),
    Val(TI64, DigitsOf(0, 8)), Val(TI64, DigitsOf(1, 8)),
    Val(TI64, << 0, 0, 0, 0, 0, 0, 0, 128 >>),
    Val(TI64, << 255, 255, 255, 255, 255, 255, 255, 127 >>),
    Val(TI64, DigitsOf(-2, 8)),
    Val(TI64, << 8, 7, 6, 5, 4, 3, 2, 1 >>) }

BoolSamples == { Val(TBool, << 0 >>), Val(TBool, << 1 >>) }

\* 0.0f, 1.0f, -2.0f; 0.0, 1.0, -2.0
FloatSamples ==
  { Val(TF32, DigitsOf(0, 4)), Val(TF32, << 0, 0, 128, 63 >>),
    Val(TF32, << 0, 0, 0, 192 >>),
    Val(TF64, DigitsOf(0, 8)), Val(TF64, << 0, 0, 0, 0, 0, 0, 240, 63 >>),
    Val(TF64, << 0, 0, 0, 0, 0, 0, 0, 192 >>) }

Str(bytes) == Val(TStr, bytes)
StrEmpty == Str(<< >>)
StrShort == Str(<< 83, 104, 111, 114, 116 >>)
StrA == Str(<< 97 >>)
StrB == Str(<< 98 >>)
StrBc == Str(<< 98, 99 >>)

StringSamples == { StrEmpty, StrShort, StrA }

U8(n) == Val(TU8, DigitsOf(n, 1))
I8(n) == Val(TI8, DigitsOf(n, 1))
I32(n) == Val(TI32, DigitsOf(n, 4))

\* The same logical sequences in each of the three containers.
ListSamples ==
  UNION { { Val(<< c, TI32 >>, << >>),
            Val(<< c, TI32 >>, << I32(1), I32(2) >>),
            Val(<< c, TI32 >>, << I32(-3), I32(1), I32(2) >>),
            Val(<< c, TStr >>, << >>),
            Val(<< c, TStr >>, << StrA, StrBc >>),
            Val(<< c, TBool >>, << Val(TBool, << 1 >>), Val(TBool, << 0 >>),
                                   Val(TBool, << 1 >>) >>),
            Val(<< c, TF32 >>, << Val(TF32, << 0, 0, 128, 63 >>) >>),
            Val(<< c, << "vector", TU8 >> >>,
                << Val(<< "vector", TU8 >>, << U8(1) >>),
                   Val(<< "vector", TU8 >>, << U8(2), U8(3) >>) >>) }
          : c \in ListNames }

OrderedMaps == {"map", "multimap"}
UnorderedMaps == {"unordered_map", "unordered_multimap"}
MultiMaps == {"multimap", "unordered_multimap"}

\* Maps in an iteration order their container can have: sorted by key for
\* the ordered ones, any order for the unordered ones; repeated keys only
\* in the multimaps.
MapSamples ==
  UNION { { Val(<< m, TU8, TU8 >>, << >>),
            Val(<< m, TU8, TU8 >>, << << U8(1), U8(2) >>, << U8(3), U8(4) >> >>),
            Val(<< m, TI8, TU8 >>, << << I8(-1), U8(7) >>, << I8(2), U8(9) >> >>),
            Val(<< m, TI32, TI32 >>, << << I32(1), I32(2) >> >>),
            Val(<< m, TStr, TU8 >>, << << StrA, U8(5) >>, << StrB, U8(10) >> >>),
            Val(<< m, TU8, << "vector", TU8 >> >>,
                << << U8(1), Val(<< "vector", TU8 >>, << U8(7), U8(8) >>) >> >>) }
          : m \in MapNames }
  \cup
  UNION { { Val(<< m, TU8, TU8 >>, << << U8(3), U8(4) >>, << U8(1), U8(2) >> >>),
            Val(<< m, TI8, TU8 >>, << << I8(2), U8(9) >>, << I8(-1), U8(7) >> >>),
            Val(<< m, TStr, TU8 >>, << << StrB, U8(10) >>, << StrA, U8(5) >> >>) }
          : m \in UnorderedMaps }
  \cup
  UNION { { Val(<< m, TU8, TU8 >>,
                << << U8(1), U8(2) >>, << U8(1), U8(3) >>, << U8(5), U8(0) >> >>),
            Val(<< m, TU8, TU8 >>,
                << << U8(1), U8(3) >>, << U8(1), U8(2) >>, << U8(5), U8(0) >> >>) }
          : m \in MultiMaps }

Values == IntSamples \cup BoolSamples \cup FloatSamples \cup StringSamples
            \cup ListSamples \cup MapSamples

\* Byte strings a peer can send that no encoder of this library produced:
\* length prefixes that advertise more than follows, repeated keys, a
\* boolean byte other than 0 and 1.
WireSamples ==
  { << 100, 0, 0, 0, 1, 2, 3, 4, 5, 6, 7, 8, 9, 10 >>,
    << 3, 0, 0, 0, 1, 0, 0, 0, 2, 0, 0, 0 >>,
    << 2, 0, 0, 0, 1, 0, 0, 0, 97 >>,
    << 1, 0, 0, 0, 3, 0, 0, 0, 97 >>,
    << 2, 0, 0, 0, 1, 5, 1, 6 >>,
    << 3, 0, 0, 0, 1, 5, 2, 7, 1, 6 >>,
    << 0, 0, 1, 0, 1, 2 >>,
    << 2 >> }

\* The types the loaded bytes are decoded as.
DecodeTypes ==
  { TU8, TU32, TBool, TF32, TStr,
    << "vector", TU32 >>, << "list", TStr >>, << "deque", TU8 >>,
    << "vector", << "vector", TU8 >> >>,
    << "map", TU8, TU8 >>, << "multimap", TU8, TU8 >>,
    << "unordered_map", TU8, TU8 >>, << "map", TStr, TU8 >>,
    << "map", TU32, TStr >> }

\* The destination before a decode: a value other than anything decoded.
PriorOf(t) ==
  CASE IsBool(t) -> Val(t, << 1 >>)
    [] IsPrimitive(t) -> Val(t, [i \in 1..SizeOf(t) |-> 90])
    [] IsStr(t) -> Val(t, << 120 >>)
    [] IsList(t) -> Val(t, << DefaultOf(t[2]) >>)
    [] IsMap(t) -> Val(t, << << DefaultOf(t[2]), DefaultOf(t[3]) >> >>)

FillBytes == {0, 170}
ULens == {0, 3}
UBytes == {0, 1}
URets == {0, 7}

\* ------------------------------------------------------------------------
\* The state: one buffer that values are encoded into and decoded from, as
\* in the fixture of serialize_test.cc, and the record of the last encode
\* and the last decode.

VARIABLES
  build,   \* the build of the library
  buf,     \* the buffer
  op,      \* "idle", "serialize", "load", "deserialize"
  pre,     \* the buffer before the last encode or load
  val,     \* the value last encoded (NoVal if the bytes were loaded)
  scap,    \* capacity passed to the last encode
  sret,    \* count the last encode returned
  prior,   \* the destination before the last decode
  dcap,    \* capacity passed to the last decode
  dres     \* result of the last decode (count, destination, flags)

\* The state of the message tests: a message under construction or
\* received, and what its observers returned.
VARIABLES
  ndebug,  \* NDEBUG is defined: the assertions are compiled out
  mop,     \* "idle", "BuildRequest", "BuildResponse", "Msg"
  aborted, \* an assertion failed and ended the process
  data_,   \* Msg::data_
  call,    \* the call id passed to the builder
  method,  \* the method id passed to BuildRequest
  obj,     \* the object id passed to BuildRequest
  args,    \* the arguments passed to BuildRequest, or the return value
  wrote,   \* count SerializeToVec returned
  hdr,     \* what the header observers returned
  view     \* args_data() / return_value() and the decode of the region

\* The state of the byte order tests.
VARIABLES
  eop,     \* "idle", "byte_swap", "le_to_host"
  ex,      \* the value passed
  ey       \* the results

codecVars == << buf, op, pre, val, scap, sret, prior, dcap, dres >>

msgVars == << ndebug, mop, aborted, data_, call, method, obj, args, wrote,
              hdr, view >>

swapVars == << eop, ex, ey >>

vars == << build, codecVars, msgVars, swapVars >>

\* No observer was called.
NoHdr == [called |-> FALSE]

\* No payload view was taken.
NoView == [called |-> FALSE]

\* No message exists.
MsgIdle ==
  /\ mop = "idle"
  /\ aborted = FALSE
  /\ data_ = << >>
  /\ call = << >>
  /\ method = << >>
  /\ obj = << >>
  /\ args = << >>
  /\ wrote = 0
  /\ hdr = NoHdr
  /\ view = NoView

\* No conversion was made.
SwapIdle ==
  /\ eop = "idle"
  /\ ex = NoVal
  /\ ey = [called |-> FALSE]

NoRes == DesRes(0, NoVal, NoFlags)

Fresh(f) == [i \in 1..BufLen |-> f]

Init ==
  /\ build \in Builds
  /\ \E f \in FillBytes : buf = Fresh(f)
  /\ op = "idle"
  /\ pre = buf
  /\ val = NoVal
  /\ scap = 0
  /\ sret = 0
  /\ prior = NoVal
  /\ dcap = 0
  /\ dres = NoRes
  /\ ndebug = TRUE
  /\ MsgIdle
  /\ SwapIdle

StaticEnv == Env(build, TRUE, 0, 0, 0)

RECURSIVE Mentions(_, _)
\* The type t is, or is built from, a type whose name is in names.
Mentions(t, names) ==
  \/ t[1] \in names
  \/ \E i \in 2..Len(t) : Mentions(t[i], names)

\* The environments a decode of type t can tell apart: the binding of
\* deserialize<bool> and the uninitialized byte matter to a type that holds
\* a bool, the uninitialized length to a type that holds a length prefix,
\* the result of a read outside the allocation to a type that holds a string
\* (only a string decode moves the cursor without a capacity check).
EnvsFor(t) ==
  { Env(build, h, ul, ub, ur) :
      h \in (IF Mentions(t, {"bool"}) THEN BOOLEAN ELSE {TRUE}),
      ul \in (IF Mentions(t, {"str"} \cup ListNames \cup MapNames)
              THEN ULens ELSE {0}),
      ub \in (IF Mentions(t, {"bool"}) THEN UBytes ELSE {0}),
      ur \in (IF Mentions(t, {"str"}) THEN URets ELSE {0}) }

\* serialize(v, buf_.data(), c)
Serialize ==
  /\ op = "idle"
  /\ \E v \in Values, c \in 0..BufLen :
       LET r == serialize(v, buf, 0, c, StaticEnv) IN
       /\ buf' = r.buf
       /\ sret' = r.n
       /\ val' = v
       /\ scap' = c
  /\ pre' = buf
  /\ op' = "serialize"
  /\ UNCHANGED << build, prior, dcap, dres, msgVars, swapVars >>

\* Bytes received from a peer are placed in the buffer.
Load ==
  /\ op = "idle"
  /\ \E w \in WireSamples :
       /\ buf' = Memcpy(buf, 0, w)
       /\ scap' = Len(w)
       /\ sret' = Len(w)
  /\ pre' = buf
  /\ val' = NoVal
  /\ op' = "load"
  /\ UNCHANGED << build, prior, dcap, dres, msgVars, swapVars >>

\* deserialize(&x, buf_.data(), c) with x of type t.  An encoding is decoded
\* as the type it was encoded from, loaded bytes as any of the sample types.
Deserialize ==
  /\ op \in {"serialize", "load"}
  /\ \E t \in (IF op = "serialize" THEN {val.t} ELSE DecodeTypes) :
       \E c \in 0..BufLen, e \in EnvsFor(t) :
         /\ prior' = PriorOf(t)
         /\ dcap' = c
         /\ dres' = deserialize(PriorOf(t), buf, 0, c, c, e)
  /\ op' = "deserialize"
  /\ UNCHANGED << build, buf, pre, val, scap, sret, msgVars, swapVars >>

\* The fixture is set up again for the next test.
Reset ==
  /\ op = "deserialize"
  /\ \E f \in FillBytes : buf' = Fresh(f)
  /\ op' = "idle"
  /\ pre' = buf'
  /\ val' = NoVal
  /\ scap' = 0
  /\ sret' = 0
  /\ prior' = NoVal
  /\ dcap' = 0
  /\ dres' = NoRes
  /\ UNCHANGED << build, msgVars, swapVars >>

Next == Serialize \/ Load \/ Deserialize \/ Reset

Spec == Init /\ [][Next]_vars

TypeOK ==
  /\ build \in Builds
  /\ Len(buf) = BufLen
  /\ op \in {"idle", "serialize", "load", "deserialize"}
  /\ sret \in 0..BufLen
  /\ scap \in 0..BufLen
  /\ dcap \in 0..BufLen

\* ------------------------------------------------------------------------
\* Messages (msg.h, msg.cc).

CallId == TU16
MethodId == TU32
ObjectId == TU64
Preamble == TU8

\* enum class Type { Request = 1, Response = 2 }: the underlying type is int.
Request == 1
Response == 2
SizeOfType == SizeOf(TI32)

kHeaderSize == SizeOf(Preamble) + 1 + SizeOf(CallId)
kTypeOffset == SizeOf(Preamble)
kCallIdOffset == kTypeOffset + 1
kMethodIdOffset == kCallIdOffset + SizeOf(CallId)
kObjectIdOffset == kMethodIdOffset + SizeOf(MethodId)
kArgsOffset == kObjectIdOffset + SizeOf(ObjectId)
kRvOffset == kCallIdOffset + SizeOf(CallId)
kPreamble == 67

\* host_to_le<Msg::Type> does not compile in the portable branch (x & 0xFF
\* and x >>= 8 on a scoped enumeration): msg.cc exists in the other builds.
MsgBuilds == { b \in Builds : b.impl # "portable" }

\* What a Write leaves: the data, and whether its assertion ended the
\* process.
WrRes(abort, data) == [abort |-> abort, data |-> data]

\* Msg::Write(offset, data, size), nd: the assertions are compiled out.
Write(d, offset, bytes, nd) ==
  IF ~nd /\ ~(offset + Len(bytes) < Len(d)) THEN WrRes(TRUE, d)
  ELSE WrRes(FALSE, Memcpy(d, offset, bytes))

\* The next Write of a builder, if the process is still running.
WriteNext(r, offset, bytes, nd) ==
  IF r.abort THEN r ELSE Write(r.data, offset, bytes, nd)

\* std::vector::resize of an empty vector: n zero bytes.
Resized(n) == [i \in 1..n |-> 0]

PrepareRequestPrefix(c, m, o, args_size, e, nd) ==
  LET d0 == Resized(kHeaderSize + SizeOf(ObjectId) + SizeOf(MethodId) + args_size)
      w1 == Write(d0, 0, ToMem(<< kPreamble >>, e.host), nd)
      w2 == WriteNext(w1, kTypeOffset,
                      ToMem(DigitsOf(Request, SizeOfType), e.host), nd)
      w3 == WriteNext(w2, kCallIdOffset,
                      ToMem(host_to_le(c, CallId, e), e.host), nd)
      w4 == WriteNext(w3, kMethodIdOffset,
                      ToMem(host_to_le(m, MethodId, e), e.host), nd)
  IN WriteNext(w4, kObjectIdOffset, ToMem(host_to_le(o, ObjectId, e), e.host), nd)

PrepareResponsePrefix(c, rv_size, e, nd) ==
  LET d0 == Resized(kHeaderSize + rv_size)
      w1 == Write(d0, 0, ToMem(<< kPreamble >>, e.host), nd)
      w2 == WriteNext(w1, kTypeOffset,
                      ToMem(host_to_le(DigitsOf(Response, SizeOfType), TU32, e),
                            e.host), nd)
  IN WriteNext(w2, kCallIdOffset, ToMem(host_to_le(c, CallId, e), e.host), nd)

RECURSIVE serialized_size_of_all(_)
serialized_size_of_all(as) ==
  IF Len(as) = 1 THEN serialized_size(as[1])
  ELSE serialized_size(Head(as)) + serialized_size_of_all(Tail(as))

RECURSIVE SerializeToVec(_, _, _, _, _)
SerializeToVec(b, off, buf_size, as, e) ==
  IF Len(as) = 1 THEN serialize(as[1], b, off, buf_size, e)
  ELSE LET r == serialize(Head(as), b, off, buf_size, e)
           s == SerializeToVec(r.buf, off + r.n, buf_size - r.n, Tail(as), e)
       IN SerRes(r.n + s.n, s.buf)

\* What a builder leaves: the message, the count SerializeToVec returned,
\* and whether an assertion ended the process.
Built(abort, data, n) == [abort |-> abort, data |-> data, n |-> n]

BuildRequest(c, m, o, as, e, nd) ==
  LET args_size == serialized_size_of_all(as)
      msg == PrepareRequestPrefix(c, m, o, args_size, e, nd)
  IN IF msg.abort THEN Built(TRUE, msg.data, 0)
     ELSE LET s == SerializeToVec(msg.data, kArgsOffset,
                                  Len(msg.data) - kArgsOffset, as, e)
          IN Built(FALSE, s.buf, s.n)

BuildResponse(c, rv, e, nd) ==
  LET rv_size == serialized_size(rv)
      msg == PrepareResponsePrefix(c, rv_size, e, nd)
  IN IF msg.abort THEN Built(TRUE, msg.data, 0)
     ELSE LET s == SerializeToVec(msg.data, kRvOffset,
                                  Len(msg.data) - kRvOffset, << rv >>, e)
          IN Built(FALSE, s.buf, s.n)

\* What an observer returns: the value, whether its assertion ended the
\* process, and whether it read outside data_.
RdRes(abort, ub, v) == [abort |-> abort, ub |-> ub, v |-> v]

\* The observer was not called.
NotCalled == RdRes(FALSE, FALSE, << >>)

\* Msg::Read<T>(offset) with sizeof(T) = size.  A byte outside data_ is
\* indeterminate (u).
Read(d, offset, size, e, nd, u) ==
  IF ~nd /\ ~(offset + size < Len(d)) THEN RdRes(TRUE, FALSE, << >>)
  ELSE RdRes(FALSE, offset + size > Len(d),
             FromMem([i \in 1..size |->
                        IF offset + i <= Len(d) THEN d[offset + i] ELSE u],
                     e.host))

preamble(d, e, nd, u) == Read(d, 0, SizeOf(Preamble), e, nd, u)

\* Msg::Type(Read<uint8_t>(kTypeOffset)): the value of the enumeration.
type(d, e, nd, u) ==
  LET r == Read(d, kTypeOffset, SizeOf(TU8), e, nd, u)
  IN RdRes(r.abort, r.ub, IF r.abort THEN 0 ELSE r.v[1])

call_id(d, e, nd, u) == Read(d, kCallIdOffset, SizeOf(CallId), e, nd, u)

\* assert(type() == t)
TypeAsserted(d, t, e, nd, u) ==
  nd \/ (~type(d, e, nd, u).abort /\ type(d, e, nd, u).v = t)

method_id(d, e, nd, u) ==
  IF ~TypeAsserted(d, Request, e, nd, u) THEN RdRes(TRUE, FALSE, << >>)
  ELSE Read(d, kMethodIdOffset, SizeOf(MethodId), e, nd, u)

\* The MethodId that was read, converted to the ObjectId returned.
Widen(r, t) ==
  IF r.abort THEN r
  ELSE RdRes(FALSE, r.ub, [i \in 1..SizeOf(t) |->
                             IF i <= Len(r.v) THEN r.v[i] ELSE 0])

object_id(d, e, nd, u) ==
  IF ~TypeAsserted(d, Request, e, nd, u) THEN RdRes(TRUE, FALSE, << >>)
  ELSE Widen(Read(d, kObjectIdOffset, SizeOf(MethodId), e, nd, u), ObjectId)

\* An ArgData: the offset of its data in data_ and its size (a size below
\* zero stands for the size_t that wrapped).
ArgData(abort, data, size) == [abort |-> abort, data |-> data, size |-> size]

args_data(d, e, nd, u) ==
  IF ~TypeAsserted(d, Request, e, nd, u) THEN ArgData(TRUE, 0, 0)
  ELSE ArgData(FALSE, kArgsOffset, Len(d) - kArgsOffset)

return_value(d, e, nd, u) ==
  IF ~TypeAsserted(d, Response, e, nd, u) THEN ArgData(TRUE, 0, 0)
  ELSE ArgData(FALSE, kRvOffset, Len(d) - kRvOffset)

\* The values decoded so far from a region, the bytes consumed, and whether
\* every decode returned a count above zero without reading past the region.
Region(out, used, ok) == [out |-> out, used |-> used, ok |-> ok]

\* deserialize of each type of ts in turn from the region of d at off.
RECURSIVE DeserializeAll(_, _, _, _, _, _)
DeserializeAll(ts, d, off, size, e, acc) ==
  IF ts = << >> THEN acc
  ELSE LET r == deserialize(PriorOf(Head(ts)), d, off, size, off + size, e)
       IN DeserializeAll(Tail(ts), d, off + r.n, SizeSub(size, r.n), e,
            Region(Append(acc.out, r.out), acc.used + r.n,
                   acc.ok /\ r.n > 0 /\ ~r.over /\ ~r.ub))

\* ------------------------------------------------------------------------
\* The message tests: a message is built (msg_test.cc) or constructed from
\* received bytes, its header is read, its payload is decoded.

\* 0xABCD, 1
CallIds == { << 205, 171 >>, << 1, 0 >> }

\* 0x11223344, 2
MethodIds == { << 68, 51, 34, 17 >>, << 2, 0, 0, 0 >> }

\* 0x1122334455667788, 0 (the service object), 0x0100000000
ObjectIds ==
  { << 136, 119, 102, 85, 68, 51, 34, 17 >>, DigitsOf(0, 8),
    << 0, 0, 0, 0, 1, 0, 0, 0 >> }

\* The arguments of SimpleRequestCreation, and lists that hold a value of
\* one byte, a string, a boolean, a sequence and a float.
ArgLists ==
  { << Val(TU32, << 239, 190, 173, 222 >>), Val(TU16, << 239, 190 >>),
       Val(TU64, << 210, 194, 178, 162, 209, 193, 177, 161 >>) >>,
    << U8(7) >>,
    << StrShort, Val(TBool, << 1 >>) >>,
    << Val(<< "vector", TU8 >>, << U8(1), U8(2) >>), I32(-2) >>,
    << Val(TF32, << 0, 0, 128, 63 >>), StrEmpty >> }

\* The return value of SimpleResponseCreation, and values of other types.
ReturnValues ==
  { Val(TU32, << 239, 190, 173, 222 >>), U8(7), Val(TBool, << 1 >>),
    Val(TU16, << 239, 190 >>), StrShort, StrEmpty,
    Val(<< "vector", TU8 >>, << U8(1), U8(2) >>),
    Val(TF64, << 0, 0, 0, 0, 0, 0, 240, 63 >>) }

\* Bytes a peer can send: a request and a response as the builders lay them
\* out, a wrong preamble, type tags other than 1 and 2, buffers shorter
\* than the header, a header without payload, and a request cut to 15 bytes.
MsgWireSamples ==
  { << 67, 1, 205, 171, 68, 51, 34, 17, 136, 119, 102, 85, 68, 51, 34, 17, 7 >>,
    << 67, 2, 205, 171, 7 >>,
    << 0, 1, 205, 171, 68, 51, 34, 17, 136, 119, 102, 85, 68, 51, 34, 17, 7 >>,
    << 99, 2, 205, 171, 7 >>,
    << 67, 3, 205, 171, 7, 0 >>,
    << 67, 0, 1, 0, 9, 0 >>,
    << 67, 1, 205 >>,
    << 67 >>,
    << >>,
    << 67, 2, 205, 171 >>,
    << 67, 1, 205, 171 >>,
    << 67, 1, 205, 171, 68, 51, 34, 17, 136, 119, 102, 85, 68, 51, 34 >> }

InitMsg ==
  /\ build \in MsgBuilds
  /\ ndebug \in BOOLEAN
  /\ buf = Fresh(0)
  /\ op = "idle"
  /\ pre = buf
  /\ val = NoVal
  /\ scap = 0
  /\ sret = 0
  /\ prior = NoVal
  /\ dcap = 0
  /\ dres = NoRes
  /\ MsgIdle
  /\ SwapIdle

\* The environments a decode of the payload can tell apart.
MsgEnvs(as) ==
  { Env(build, h, 0, 0, 0) :
      h \in (IF \E i \in 1..Len(as) : Mentions(as[i].t, {"bool"})
             THEN BOOLEAN ELSE {TRUE}) }

\* Msg::BuildRequest(call, method, obj, args...)
SimpleRequestCreation ==
  /\ mop = "idle"
  /\ \E c \in CallIds, m \in MethodIds, o \in ObjectIds, as \in ArgLists :
       LET r == BuildRequest(c, m, o, as, StaticEnv, ndebug) IN
       /\ call' = c
       /\ method' = m
       /\ obj' = o
       /\ args' = as
       /\ data_' = r.data
       /\ wrote' = r.n
       /\ aborted' = r.abort
  /\ mop' = "BuildRequest"
  /\ UNCHANGED << build, codecVars, swapVars, ndebug, hdr, view >>

\* Msg::BuildResponse(call, rv)
SimpleResponseCreation ==
  /\ mop = "idle"
  /\ \E c \in CallIds, rv \in ReturnValues :
       LET r == BuildResponse(c, rv, StaticEnv, ndebug) IN
       /\ call' = c
       /\ args' = << rv >>
       /\ data_' = r.data
       /\ wrote' = r.n
       /\ aborted' = r.abort
  /\ mop' = "BuildResponse"
  /\ UNCHANGED << build, codecVars, swapVars, ndebug, method, obj, hdr, view >>

\* Msg::Msg(data, size) on bytes received from a peer.
MsgFromData ==
  /\ mop = "idle"
  /\ \E w \in MsgWireSamples : data_' = w
  /\ mop' = "Msg"
  /\ UNCHANGED << build, codecVars, swapVars, ndebug, aborted, call, method,
                  obj, args, wrote, hdr, view >>

\* preamble(), type(), call_id() and, on a request, method_id() and
\* object_id(), each called on the message as it stands.
ReadHeader ==
  /\ mop # "idle"
  /\ ~aborted
  /\ ~hdr.called
  /\ \E u \in UBytes :
       LET ty == type(data_, StaticEnv, ndebug, u)
           req == \/ mop = "BuildRequest"
                  \/ mop = "Msg" /\ ~ty.abort /\ ty.v = Request
       IN hdr' = [called |-> TRUE,
                  preamble |-> preamble(data_, StaticEnv, ndebug, u),
                  type |-> ty,
                  call_id |-> call_id(data_, StaticEnv, ndebug, u),
                  method_id |-> IF req THEN method_id(data_, StaticEnv, ndebug, u)
                                ELSE NotCalled,
                  object_id |-> IF req THEN object_id(data_, StaticEnv, ndebug, u)
                                ELSE NotCalled]
  /\ UNCHANGED << build, codecVars, swapVars, ndebug, mop, aborted, data_, call,
                  method, obj, args, wrote, view >>

\* args_data() of a request or return_value() of a response that was
\* built, and the decode of the region as the types that were encoded; on a
\* message constructed from received bytes, either view (the types of its
\* payload are not known, nothing is decoded).
ReadPayload ==
  /\ mop # "idle"
  /\ ~aborted
  /\ ~view.called
  /\ \E e \in MsgEnvs(args), u \in UBytes, request \in BOOLEAN :
       /\ mop = "BuildRequest" => request
       /\ mop = "BuildResponse" => ~request
       /\ LET a == IF request THEN args_data(data_, e, ndebug, u)
                   ELSE return_value(data_, e, ndebug, u)
          IN view' = [called |-> TRUE, region |-> a,
                      dec |-> IF a.abort \/ mop = "Msg" THEN Region(<< >>, 0, FALSE)
                              ELSE DeserializeAll([i \in 1..Len(args) |-> args[i].t],
                                                  data_, a.data, a.size, e,
                                                  Region(<< >>, 0, TRUE))]
  /\ UNCHANGED << build, codecVars, swapVars, ndebug, mop, aborted, data_, call,
                  method, obj, args, wrote, hdr >>

\* The message is destroyed.
Discard ==
  /\ mop # "idle"
  /\ mop' = "idle"
  /\ aborted' = FALSE
  /\ data_' = << >>
  /\ call' = << >>
  /\ method' = << >>
  /\ obj' = << >>
  /\ args' = << >>
  /\ wrote' = 0
  /\ hdr' = NoHdr
  /\ view' = NoView
  /\ UNCHANGED << build, codecVars, swapVars, ndebug >>

NextMsg ==
  \/ SimpleRequestCreation
  \/ SimpleResponseCreation
  \/ MsgFromData
  \/ ReadHeader
  \/ ReadPayload
  \/ Discard

SpecMsg == InitMsg /\ [][NextMsg]_vars

\* ------------------------------------------------------------------------
\* byte_swap without the GNU builtins (CIPC_USE_GNU_BUILTINS == 0).

\* n zero bytes.
Zeros(n) == [i \in 1..n |-> 0]

\* Conversion of an unsigned integer to a wider type.
Promote(x, w) == x \o Zeros(w - Len(x))

\* Conversion of an integer to a narrower unsigned type.
Truncate(x, w) == SubSeq(x, 1, w)

\* x >> 8 * k of an integer that is not negative.
ShrBytes(x, k) == SubSeq(x, k + 1, Len(x)) \o Zeros(k)

\* x << 8 * k with 8 * k below the width of x.
ShlBytes(x, k) == Zeros(k) \o SubSeq(x, 1, Len(x) - k)

\* a | b of two bytes.
RECURSIVE BitOr(_, _)
BitOr(a, b) ==
  IF a = 0 THEN b
  ELSE IF b = 0 THEN a
  ELSE (IF a % 2 = 1 \/ b % 2 = 1 THEN 1 ELSE 0) + 2 * BitOr(a \div 2, b \div 2)

\* a | b of two integers of the same width.
Or(a, b) == [i \in 1..Len(a) |-> BitOr(a[i], b[i])]

\* The outcomes of shifting a 32-bit integer by 32: the shift count is
\* reduced modulo 32 (x86 shl), or the bits are shifted out.
ShiftOutcomes == {"same", "zero"}

\* x << 32 of a std::uint32_t x (undefined).
Shl32(x, s) == IF s = "same" THEN x ELSE Zeros(Len(x))

\* byte_swap<std::uint16_t>: x is promoted to int.
byte_swap_u16(x) ==
  LET p == Promote(x, SizeOf(TI32))
  IN Truncate(Or(ShrBytes(p, 1), ShlBytes(p, 1)), SizeOf(TU16))

\* byte_swap<std::uint32_t>: both halves are swapped as std::uint16_t and
\* promoted to int.
byte_swap_u32(x) ==
  LET lo == Promote(byte_swap_u16(Truncate(x, SizeOf(TU16))), SizeOf(TI32))
      hi == Promote(byte_swap_u16(Truncate(ShrBytes(x, 2), SizeOf(TU16))),
                    SizeOf(TI32))
  IN Or(ShlBytes(lo, 2), hi)

\* byte_swap<std::uint64_t>: both halves are swapped as std::uint32_t, the
\* shift and the | are made in std::uint32_t and the result is widened.
byte_swap_u64(x, s) ==
  LET lo == byte_swap_u32(Truncate(x, SizeOf(TU32)))
      hi == byte_swap_u32(Truncate(ShrBytes(x, 4), SizeOf(TU32)))
  IN Promote(Or(Shl32(lo, s), hi), SizeOf(TU64))

byte_swap_fallback(x, s) ==
  CASE Len(x) = 1 -> x
    [] Len(x) = 2 -> byte_swap_u16(x)
    [] Len(x) = 4 -> byte_swap_u32(x)
    [] Len(x) = 8 -> byte_swap_u64(x, s)

\* ------------------------------------------------------------------------
\* The byte order tests: byte_swap is applied once and twice to an unsigned
\* integer, host_to_le and then le_to_host to an integer of any type.

SwapSamples == { v \in IntSamples : ~IsSigned(v.t) }

InitSwap ==
  /\ build \in Builds
  /\ ndebug = TRUE
  /\ buf = Fresh(0)
  /\ op = "idle"
  /\ pre = buf
  /\ val = NoVal
  /\ scap = 0
  /\ sret = 0
  /\ prior = NoVal
  /\ dcap = 0
  /\ dres = NoRes
  /\ MsgIdle
  /\ SwapIdle

\* What a test of the byte order functions saw.
Swapped(gnu, out, back) ==
  [called |-> TRUE, gnu |-> gnu, out |-> out, back |-> back]

\* byte_swap(x) and byte_swap(byte_swap(x)).  The big-endian branch of
\* host_to_le is only selected together with the GNU builtins.
ByteSwap ==
  /\ eop = "idle"
  /\ \E x \in SwapSamples, g \in BOOLEAN, s \in ShiftOutcomes :
       /\ g \/ build.impl # "be_swap"
       /\ ex' = x
       /\ ey' = IF g THEN Swapped(g, byte_swap(x.d), byte_swap(byte_swap(x.d)))
                ELSE Swapped(g, byte_swap_fallback(x.d, s),
                             byte_swap_fallback(byte_swap_fallback(x.d, s), s))
  /\ eop' = "byte_swap"
  /\ UNCHANGED << build, codecVars, msgVars >>

\* le_to_host<T>(host_to_le(v))
HostToLeToHost ==
  /\ eop = "idle"
  /\ \E v \in IntSamples :
       LET le == host_to_le(v.d, v.t, StaticEnv) IN
       /\ ex' = v
       /\ ey' = Swapped(TRUE, le, le_to_host(le, v.t, StaticEnv))
  /\ eop' = "le_to_host"
  /\ UNCHANGED << build, codecVars, msgVars >>

\* The next test starts.
SwapReset ==
  /\ eop # "idle"
  /\ eop' = "idle"
  /\ ex' = NoVal
  /\ ey' = [called |-> FALSE]
  /\ UNCHANGED << build, codecVars, msgVars >>

NextSwap == ByteSwap \/ HostToLeToHost \/ SwapReset

SpecSwap == InitSwap /\ [][NextSwap]_vars

\* ------------------------------------------------------------------------
\* Vocabulary of the properties.

\* A value was encoded into the buffer (and possibly decoded again).
Encoded == op \in {"serialize", "deserialize"} /\ val # NoVal

\* The last encode succeeded.
EncodedOk == Encoded /\ sret > 0

\* A decode of the encoding of val took place.
Decoded == op = "deserialize" /\ val # NoVal

\* Bytes received from a peer were decoded.
DecodedLoad == op = "deserialize" /\ val = NoVal

\* The (small) number a value of an 8- or 16-bit type or of i32 denotes.
NumOf(v) ==
  LET w == SizeOf(v.t)
      top == IF IsSigned(v.t) /\ v.d[w] >= 128 THEN v.d[w] - 256 ELSE v.d[w]
      low(i) == IF i < w THEN v.d[i] * Pow256(i - 1) ELSE 0
  IN top * Pow256(w - 1) + low(1) + low(2) + low(3)

HasNum(t) == t[1] \in {"u8", "u16", "i8", "i16", "i32"}

\* The bytes serialize writes for v alone at the start of a large enough
\* buffer.
EncodingOf(v) ==
  SubSeq(serialize(v, Fresh(0), 0, BufLen, StaticEnv).buf, 1, serialized_size(v))

RECURSIVE ConcatItems(_)
ConcatItems(items) ==
  IF items = <<>> THEN <<>>
  ELSE EncodingOf(Head(items)) \o ConcatItems(Tail(items))

RECURSIVE ConcatPairs(_)
ConcatPairs(pairs) ==
  IF pairs = <<>> THEN <<>>
  ELSE EncodingOf(Head(pairs)[1]) \o EncodingOf(Head(pairs)[2])
         \o ConcatPairs(Tail(pairs))

RECURSIVE SumSizes(_)
SumSizes(items) ==
  IF items = <<>> THEN 0
  ELSE serialized_size(Head(items)) + SumSizes(Tail(items))

\* The count a length prefix at the start of the buffer advertises.
Advertised == U32ToNat(SubSeq(buf, 1, 4))

\* ------------------------------------------------------------------------
\* Properties.

\* C1: an integer of any of the eight types, encoded with a capacity of at
\* least sizeof(T) and decoded with a capacity of at least sizeof(T), comes
\* back equal, and both calls return sizeof(T) = serialized_size(v), also
\* when the capacities exceed sizeof(T).
C1_IntRoundTrip ==
  (Decoded /\ IsInt(val.t) /\ scap >= SizeOf(val.t) /\ dcap >= SizeOf(val.t)) =>
    /\ sret = SizeOf(val.t)
    /\ sret = serialized_size(val)
    /\ dres.n = SizeOf(val.t)
    /\ dres.out = val

C1_Witness ==
  /\ Decoded
  /\ val = Val(TI64, << 0, 0, 0, 0, 0, 0, 0, 128 >>)
  /\ build = [host |-> "BE", impl |-> "portable"]
  /\ scap > SizeOf(val.t)
  /\ dcap > SizeOf(val.t)
  /\ dres.n = 8
  /\ dres.out = val

\* C2: when the capacity is at least serialized_size(v), serialize returns
\* exactly serialized_size(v) and changes no byte of the buffer at or after
\* that offset.
C2_SizeAgreement ==
  (Encoded /\ scap >= serialized_size(val)) =>
    /\ sret = serialized_size(val)
    /\ \A i \in (sret + 1)..BufLen : buf[i] = pre[i]

C2_Witness ==
  /\ Encoded
  /\ IsList(val.t)
  /\ IsList(val.t[2])
  /\ scap > serialized_size(val)
  /\ sret = 15
  /\ buf[15] # pre[15]
  /\ buf[16] = pre[16]

\* C3: when the capacity is less than serialized_size(v), serialize returns
\* 0 and leaves every byte of the buffer as it was.
C3_EncodeInsufficient ==
  (Encoded /\ scap < serialized_size(val)) => (sret = 0 /\ buf = pre)

C3_Witness ==
  /\ Encoded
  /\ IsList(val.t)
  /\ val.t[2] = TStr
  /\ Len(val.d) = 2
  /\ scap = serialized_size(val) - 1
  /\ sret = 0
  /\ buf = pre

\* C4: a decode of a primitive (integer, bool, float) with a capacity less
\* than sizeof(T) returns 0 and leaves the destination as it was.
C4_PrimitiveDecodeInsufficient ==
  (op = "deserialize" /\ IsPrimitive(prior.t) /\ dcap < SizeOf(prior.t)) =>
    (dres.n = 0 /\ dres.out = prior)

\* C5: byte i of the encoding of an integer is octet i of its two's
\* complement pattern, (v >> 8*i) & 0xFF, in every build.
C5_LittleEndianWire ==
  (EncodedOk /\ IsInt(val.t)) =>
    /\ \A i \in 1..SizeOf(val.t) : buf[i] = val.d[i]
    /\ HasNum(val.t) =>
         \A i \in 1..SizeOf(val.t) :
           buf[i] = (NumOf(val) \div Pow256(i - 1)) % 256

C5_Witness ==
  /\ EncodedOk
  /\ val = Val(TI16, DigitsOf(-2, 2))
  /\ build = [host |-> "BE", impl |-> "be_swap"]
  /\ buf[1] = 254
  /\ buf[2] = 255

\* C6: a string of n bytes has serialized_size 4 + n; its encoding is n as a
\* 4-byte little-endian count followed by exactly its bytes, with no
\* terminator; decoding the encoding gives the string back and returns
\* 4 + n.
C6_StringCodec ==
  (Encoded /\ val.t = TStr /\ scap >= 4 + Len(val.d)) =>
    /\ serialized_size(val) = 4 + Len(val.d)
    /\ sret = 4 + Len(val.d)
    /\ SubSeq(buf, 1, 4) = DigitsOf(Len(val.d), 4)
    /\ SubSeq(buf, 5, 4 + Len(val.d)) = val.d
    /\ \A i \in (5 + Len(val.d))..BufLen : buf[i] = pre[i]
    /\ val = StrShort =>
         SubSeq(buf, 1, 9) = << 5, 0, 0, 0, 83, 104, 111, 114, 116 >>
    /\ val = StrEmpty => SubSeq(buf, 1, 4) = << 0, 0, 0, 0 >>
    /\ (Decoded /\ dcap >= sret) => (dres.out = val /\ dres.n = 4 + Len(val.d))

C6_Witness ==
  /\ Decoded
  /\ val = StrShort
  /\ pre[10] = 170
  /\ buf[10] = 170
  /\ dcap = 9
  /\ dres.n = 9
  /\ dres.out = StrShort

\* C7: a decode of a string returns 0 when the capacity is less than 4 or
\* the capacity less 4 is smaller than the length the prefix advertises.
C7_StringTruncation ==
  (op = "deserialize" /\ prior.t = TStr
     /\ (dcap < 4 \/ dcap - 4 < Advertised)) => dres.n = 0

\* C8: the encoding of a sequence is its element count as a 4-byte
\* little-endian number followed by the encodings of its elements in order;
\* its serialized_size is 4 plus the sizes of the elements; the bytes do not
\* depend on the container; decoding gives the sequence back.
C8_SequenceCodec ==
  (Encoded /\ IsList(val.t) /\ scap >= serialized_size(val)) =>
    /\ serialized_size(val) = 4 + SumSizes(val.d)
    /\ sret = serialized_size(val)
    /\ SubSeq(buf, 1, sret) = DigitsOf(Len(val.d), 4) \o ConcatItems(val.d)
    /\ val.d = <<>> => (sret = 4 /\ SubSeq(buf, 1, 4) = << 0, 0, 0, 0 >>)
    /\ \A c \in ListNames :
         EncodingOf(Val(<< c, val.t[2] >>, val.d)) = SubSeq(buf, 1, sret)
    /\ (Decoded /\ dcap >= sret) => (dres.out = val /\ dres.n = sret)

C8_Witness ==
  /\ Decoded
  /\ val.t = << "list", TStr >>
  /\ Len(val.d) = 2
  /\ dcap = sret
  /\ dres.n = 15
  /\ dres.out = val
  /\ SubSeq(buf, 1, 15) = << 2, 0, 0, 0, 1, 0, 0, 0, 97, 2, 0, 0, 0, 98, 99 >>

\* C9: a decode of a sequence or map whose encoding is cut short by the
\* capacity (the count is readable, the content it advertises is not all
\* there) returns 0.
C9_ContainerTruncation ==
  (Decoded /\ (IsList(val.t) \/ IsMap(val.t)) /\ sret > 0
     /\ dcap >= 4 /\ dcap < sret) => dres.n = 0

\* C10: the encoding of a map is its pair count as a 4-byte little-endian
\* number followed by key then value of each pair in iteration order;
\* decoding it gives a map equal to the encoded one and returns
\* serialized_size, whatever the iteration order was.
C10_MapRoundTrip ==
  (Encoded /\ IsMap(val.t) /\ scap >= serialized_size(val)) =>
    /\ sret = serialized_size(val)
    /\ SubSeq(buf, 1, sret) = DigitsOf(Len(val.d), 4) \o ConcatPairs(val.d)
    /\ (Decoded /\ dcap >= sret) =>
         (ValEq(dres.out, val) /\ dres.n = serialized_size(val))

C10_Witness ==
  /\ Decoded
  /\ val = Val(<< "unordered_map", TStr, TU8 >>,
               << << StrB, U8(10) >>, << StrA, U8(5) >> >>)
  /\ dcap >= sret
  /\ dres.n = 16
  /\ dres.out # val
  /\ ValEq(dres.out, val)

\* A request was built; a response was built.
RequestBuilt == mop = "BuildRequest"
ResponseBuilt == mop = "BuildResponse"

\* The bytes of data_ from offset off (counted from 0) up to offset end.
Bytes(off, end) == SubSeq(data_, off + 1, end)

\* C11: BuildRequest yields exactly 16 + the sum of the arguments'
\* serialized sizes bytes: 0x43, 0x01, the call id as a little-endian u16 at
\* offset 2, the method id as a little-endian u32 at offset 4, the object id
\* as a little-endian u64 at offset 8, and the serialized arguments in order
\* from offset 16.  BuildResponse yields exactly 4 + serialized_size(rv)
\* bytes: 0x43, 0x02, the call id at offset 2, the return value from
\* offset 4.
C11_FramingLayout ==
  /\ RequestBuilt =>
       /\ ~aborted
       /\ Len(data_) = 16 + SumSizes(args)
       /\ Bytes(0, 2) = << 67, 1 >>
       /\ Bytes(2, 4) = call
       /\ Bytes(4, 8) = method
       /\ Bytes(8, 16) = obj
       /\ Bytes(16, Len(data_)) = ConcatItems(args)
  /\ ResponseBuilt =>
       /\ ~aborted
       /\ Len(data_) = 4 + serialized_size(args[1])
       /\ Bytes(0, 2) = << 67, 2 >>
       /\ Bytes(2, 4) = call
       /\ Bytes(4, Len(data_)) = EncodingOf(args[1])

\* The observers were called on a message a builder returned.
HeaderRead == hdr.called /\ (RequestBuilt \/ ResponseBuilt)

\* The observer returned the value v.
Returned(r, v) == ~r.abort /\ r.v = v

\* C12: on every message a builder returned, preamble() is 0x43, type() is
\* Request for BuildRequest and Response for BuildResponse, call_id() is the
\* call id that was passed and, on a request, method_id() is the method id
\* that was passed.
C12_HeaderObservers ==
  HeaderRead =>
    /\ Returned(hdr.preamble, << 67 >>)
    /\ Returned(hdr.type, IF RequestBuilt THEN 1 ELSE 2)
    /\ Returned(hdr.call_id, call)
    /\ RequestBuilt => Returned(hdr.method_id, method)

\* C13: object_id() of a request returns all 64 bits of the object id that
\* was passed, for example 0x1122334455667788.
C13_ObjectIdFullWidth ==
  (HeaderRead /\ RequestBuilt) => Returned(hdr.object_id, obj)

\* The payload view of a built message was taken and decoded.
PayloadRead == view.called /\ (RequestBuilt \/ ResponseBuilt)

\* C14: args_data() of a request is the region that starts at offset 16 and
\* has the size of the sum of the arguments' serialized sizes, the builder's
\* write cursor ends at the end of the buffer, and decoding the region as
\* the argument types in order restores the arguments and consumes exactly
\* the region; the same holds of return_value() of a response, from
\* offset 4, and the return value.
C14_PayloadViewRoundTrip ==
  PayloadRead =>
    /\ ~view.region.abort
    /\ view.region.data = (IF RequestBuilt THEN 16 ELSE 4)
    /\ view.region.size = SumSizes(args)
    /\ view.region.data + view.region.size = Len(data_)
    /\ view.region.data + wrote = Len(data_)
    /\ view.dec.ok
    /\ view.dec.out = args
    /\ view.dec.used = view.region.size

\* A message was constructed from received bytes and its header was read.
Received == mop = "Msg" /\ hdr.called

\* The received bytes are shorter than the header, or do not start with
\* 0x43, or carry a type tag other than 1 and 2.
BadHeader ==
  \/ Len(data_) < 4
  \/ data_[1] # 67
  \/ data_[2] \notin {1, 2}

\* The receiver holds a message whose header reads all returned a value:
\* nothing reported the buffer as malformed (an assertion that ends the
\* process is counted as a report).
Accepted ==
  /\ ~hdr.preamble.abort
  /\ ~hdr.type.abort
  /\ ~hdr.call_id.abort

\* C15: constructing a Msg from received bytes and reading it never accepts
\* a buffer whose first byte is not 0x43, whose second byte is neither 1 nor
\* 2, or that is shorter than the header; a buffer is accepted only with
\* preamble 0x43 and type 1 or 2.
C15_HeaderValidation ==
  (Received /\ BadHeader) => ~Accepted

\* C16: a boolean encodes to one byte, 0 for false and 1 for true, and has
\* serialized size 1; decoding a byte b with a capacity of at least 1
\* returns 1 and yields false when b is 0 and true for every other b, so a
\* boolean round-trips.
C16_BoolCodec ==
  /\ (EncodedOk /\ IsBool(val.t)) =>
       /\ sret = 1
       /\ serialized_size(val) = 1
       /\ buf[1] = (IF val.d = << 0 >> THEN 0 ELSE 1)
  /\ (op = "deserialize" /\ IsBool(prior.t) /\ dcap >= 1) =>
       /\ dres.n = 1
       /\ dres.out = Val(TBool, << IF buf[1] = 0 THEN 0 ELSE 1 >>)

\* C17: byte_swap reverses the byte order of an unsigned integer of 16, 32
\* and 64 bits, so applying it twice gives the value back; the fallback
\* built from shifts and masks returns what the builtins return for every
\* x; on 8 bits it is the identity.
C17_ByteSwap ==
  eop = "byte_swap" =>
    /\ \A i \in 1..Len(ex.d) : ey.out[i] = ex.d[Len(ex.d) + 1 - i]
    /\ Len(ey.out) = Len(ex.d)
    /\ ey.back = ex.d
    /\ ey.out = byte_swap(ex.d)
    /\ ex.t = TU8 => ey.out = ex.d

\* C18: le_to_host<T>(host_to_le(v)) is v for every integer v of the eight
\* types, in each build (the cast on a little-endian host, byte_swap on a
\* big-endian host, the portable loop on either host).
C18_HostLeRoundTrip ==
  eop = "le_to_host" => ey.back = ex.d

\* A 64-bit signed value went through the portable loop on a big-endian
\* host, where host_to_le changes the value, and came back.
C18_Witness ==
  /\ eop = "le_to_host"
  /\ build = [host |-> "BE", impl |-> "portable"]
  /\ ex = Val(TI64, << 8, 7, 6, 5, 4, 3, 2, 1 >>)
  /\ ey.out = << 1, 2, 3, 4, 5, 6, 7, 8 >>
  /\ ey.back = ex.d

\* An encode was given less capacity than the value needs.
EncodeShort == Encoded /\ scap < serialized_size(val)

\* An encoding was decoded with less capacity than the encoding takes.
DecodeShort == Decoded /\ sret > 0 /\ dcap < sret

\* C19: an encode or decode that fails for insufficient capacity returns 0
\* and leaves the caller's state as it was: a failed encode leaves the
\* buffer unchanged, and a failed decode of a sequence or a map leaves the
\* destination unchanged or empty, never holding a prefix of the elements.
C19_NoPartialMutation ==
  /\ EncodeShort => (sret = 0 /\ buf = pre)
  /\ DecodeShort => dres.n = 0
  /\ (DecodeShort /\ (IsList(val.t) \/ IsMap(val.t))) =>
       (dres.out = prior \/ dres.out.d = << >>)

\* C20: the bytes serialize writes for a float or a double are the
\* little-endian octets of its IEEE 754 bit pattern on a little-endian and
\* on a big-endian host alike, so what one host encodes the other decodes
\* to the same bit pattern.
C20_FloatWireFormat ==
  (EncodedOk /\ IsFloat(val.t)) =>
    /\ sret = SizeOf(val.t)
    /\ SubSeq(buf, 1, sret) = val.d

\* The bounds assertion of Msg::Read<T>(offset) holds on data_.
ReadAsserted(offset, t) ==
  ~Read(data_, offset, SizeOf(t), StaticEnv, FALSE, 0).abort

\* C21: no bounds assertion fails while a message is built and read: every
\* Write of PrepareRequestPrefix and PrepareResponsePrefix satisfies
\* offset + size < data_.size(), for every argument list and every return
\* value, those of one byte included, and so does every Read the observers
\* make on the message built.
C21_NoAssertionFails ==
  /\ RequestBuilt =>
       /\ ~BuildRequest(call, method, obj, args, StaticEnv, FALSE).abort
       /\ ReadAsserted(0, Preamble)
       /\ ReadAsserted(kTypeOffset, TU8)
       /\ ReadAsserted(kCallIdOffset, CallId)
       /\ ReadAsserted(kMethodIdOffset, MethodId)
       /\ ReadAsserted(kObjectIdOffset, MethodId)
  /\ ResponseBuilt =>
       /\ ~BuildResponse(call, args[1], StaticEnv, FALSE).abort
       /\ ReadAsserted(0, Preamble)
       /\ ReadAsserted(kTypeOffset, TU8)
       /\ ReadAsserted(kCallIdOffset, CallId)

\* A string, a sequence or a map was decoded, from an encoding or from bytes
\* a peer sent.
ContainerDecoded ==
  op = "deserialize" /\ (IsStr(prior.t) \/ IsList(prior.t) \/ IsMap(prior.t))

\* C22: for every buffer content and every capacity, a decode of a string, a
\* sequence or a map (nested ones included) reads no byte at or beyond the
\* capacity, uses no uninitialized length (a type without booleans has no
\* other uninitialized local), never lets its remaining capacity wrap below
\* zero, and returns a count of at most the capacity.
C22_DecodersStayInside ==
  ContainerDecoded =>
    /\ ~dres.over
    /\ ~dres.ub
    /\ Mentions(prior.t, {"str"} \cup ListNames \cup MapNames) /\
         ~Mentions(prior.t, {"bool"}) => ~dres.uninit
    /\ ~dres.wrap
    /\ dres.n <= dcap

\* The pairs of one-byte keys and values that follow the count at the
\* start of the buffer.
WirePairs ==
  [i \in 1..Advertised |-> << U8(buf[3 + 2 * i]), U8(buf[4 + 2 * i]) >>]

\* Bytes a peer sent were decoded as a map of one-byte keys and values; they
\* hold a count and exactly that many pairs, two or more of them with the
\* same key, and the capacity covers them.
RepeatedKeysDecoded ==
  /\ DecodedLoad
  /\ IsMap(prior.t)
  /\ prior.t[2] = TU8
  /\ prior.t[3] = TU8
  /\ Advertised >= 2
  /\ scap = CollectionSizeBytes + 2 * Advertised
  /\ dcap >= scap
  /\ \E i, j \in 1..Advertised : i < j /\ WirePairs[i][1] = WirePairs[j][1]

\* The pair at position i is the first on the wire with its key.
FirstOfKey(i) == \A j \in 1..(i - 1) : WirePairs[j][1] # WirePairs[i][1]

\* C23: a well-formed buffer of n pairs with a repeated key, decoded into a
\* unique-key map (map, unordered_map), is consumed in full and the count
\* returned covers all n pairs; the map holds for each key the value of the
\* first pair read with that key (fewer than n pairs); decoded into a
\* multimap all n pairs are kept.
C23_RepeatedKeys ==
  RepeatedKeysDecoded =>
    /\ dres.n = scap
    /\ prior.t[1] \in {"map", "unordered_map"} =>
         /\ Len(dres.out.d) < Advertised
         /\ \A i \in 1..Advertised :
              Count(dres.out.d, WirePairs[i]) = (IF FirstOfKey(i) THEN 1 ELSE 0)
         /\ \A k \in 1..Len(dres.out.d) :
              \E i \in 1..Advertised : dres.out.d[k] = WirePairs[i]
    /\ prior.t[1] \in MultiMaps =>
         /\ Len(dres.out.d) = Advertised
         /\ \A i \in 1..Advertised :
              Count(dres.out.d, WirePairs[i]) = Count(WirePairs, WirePairs[i])

\* Three pairs with keys 1, 2, 1 were decoded into a std::map, which holds
\* key 1 with the first value and key 2.
C23_Witness ==
  /\ RepeatedKeysDecoded
  /\ Advertised = 3
  /\ prior.t = << "map", TU8, TU8 >>
  /\ dres.n = 10
  /\ dres.out.d = << << U8(1), U8(5) >>, << U8(2), U8(7) >> >>

\* A payload view of a message, built or received, was returned.
ViewReturned == view.called /\ ~view.region.abort

\* C24: for every message, one constructed from received bytes of any
\* length included, the size of args_data() and of return_value() is at most
\* size() and the view lies inside data_; and preamble(), type() and
\* call_id() are readable without an assertion failing on every buffer of at
\* least the 4 bytes of the header.
C24_ViewsInsideMessage ==
  /\ ViewReturned =>
       /\ view.region.size >= 0
       /\ view.region.size <= Len(data_)
       /\ view.region.data + view.region.size <= Len(data_)
  /\ (Received /\ Len(data_) >= 4) => Accepted
====
